---------------------------- MODULE Spec2Model ----------------------------
(***************************************************************************)
(* A state-machine model of RNGClass<T> (src/RNGClass.h): the lazily       *)
(* initialised wrapper around the BCrypt random number provider, its       *)
(* pending-generation counter and its destructor.                          *)
(*                                                                         *)
(* Every caller thread walks through the statements of the method it       *)
(* called; one action is one access to the shared object (a field, a       *)
(* mutex, the provider).  Statements that touch only locals are folded     *)
(* into the shared access that follows them, so the invocation of a        *)
(* generation method is the step that reads `dying` at line 303.           *)
(* Reads and writes of the plain fields are sequentially consistent: the   *)
(* fields are small aligned words and every access sits in a call that the *)
(* compiler cannot hoist across the mutex operations around it.            *)
(*                                                                         *)
(* pending_count is an unsigned long long (line 341); the model keeps it   *)
(* an integer, so a decrement below 0 would show as a negative value       *)
(* instead of wrapping to 2^64 - 1.  A thread that is still inside a       *)
(* method when the destructor has finished goes on using the object's      *)
(* storage, which the fields of the model keep standing for.               *)
(*                                                                         *)
(* The assert of the range methods exists in one build and not in the      *)
(* other; `ndebug` says which build a behaviour belongs to.  A failed      *)
(* assert ends the process, threads and destructor alike.                  *)
(***************************************************************************)
EXTENDS Integers, Sequences, FiniteSets, TLC

\* ------------------------------------------------------------- bounds
\* Caller threads of the concurrent specification.
NThreads == 2
\* Calls each thread makes in the concurrent specification.
MaxCalls == 1
\* Calls the single caller makes in the sequential specification.
SeqCalls == 2
\* Width in bits of result_type (T) in the model.
TBits == 2
\* Raw values one range call may draw before the model stops rejecting.
MaxDraws == 2
\* Provider calls (open or fill) that may fail in one behaviour.
MaxFailures == 1
\* Calls the single caller makes where range methods get any bounds.
ArgCalls == 1

Threads == 1..NThreads
TMax == 2^TBits - 1
\* (max)() - (min)() + 1 of line 230/233: the number of values of T.
TCard == 2^TBits
Raw == 0..TMax
\* The values of the signed cast_type of the same width (CustomRand<int>).
SMin == 0 - 2^(TBits - 1)
SMax == 2^(TBits - 1) - 1

\* algorithm_handle before the first open: the constructor (line 134) leaves
\* the member of line 337 without a value.  No handle the provider issues.
UninitHandle == 0
\* The argument of line 217, the address of the member: a pointer into the
\* RNGClass object, never a handle the provider issued.
AddrOfHandle == 0 - 1

VARIABLES
    \* the fields of RNGClass (lines 336-343)
    initialized, algorithm_handle, dying, pending_count,
    count_muter, destruction_muter,
    \* each caller thread: position, method called, arguments and locals
    pc, op, nested, number, floor, roof, reinitialize, calls, draws,
    \* the thread running ~RNGClass
    dpc,
    \* the BCrypt provider
    open_handles, handles_issued, failures,
    \* what has happened so far (observations, read by no action guard)
    open_calls, close_log, fills, outcome, contrib, hits, reinit_used,
    open_failed, simple_returns,
    \* the build: TRUE when NDEBUG is defined and <cassert> expands
    \* assert(...) to nothing
    ndebug

fields == <<initialized, algorithm_handle, dying, pending_count,
            count_muter, destruction_muter>>
locals == <<pc, op, nested, number, floor, roof, reinitialize, calls, draws>>
provider == <<open_handles, handles_issued, failures>>
history == <<open_calls, close_log, fills, outcome, contrib, hits,
             reinit_used, open_failed, simple_returns>>
vars == <<fields, locals, dpc, provider, history, ndebug>>

RangeOps == {"range", "custom", "floating"}

\* `result_type number;` (lines 162, 187, 246, 273): declared, not written.
NoNumber == [val |-> 0, written |-> FALSE]

\* The object as the constructor of line 134 leaves it, no method called.
Constructed ==
    /\ initialized = FALSE
    /\ algorithm_handle = UninitHandle
    /\ dying = FALSE
    /\ pending_count = 0
    /\ count_muter = 0
    /\ destruction_muter = FALSE
    /\ pc = [t \in Threads |-> "idle"]
    /\ op = [t \in Threads |-> "none"]
    /\ nested = [t \in Threads |-> FALSE]
    /\ number = [t \in Threads |-> NoNumber]
    /\ floor = [t \in Threads |-> 0]
    /\ roof = [t \in Threads |-> 0]
    /\ reinitialize = [t \in Threads |-> FALSE]
    /\ calls = [t \in Threads |-> 0]
    /\ draws = [t \in Threads |-> 0]
    /\ dpc = "alive"
    /\ open_handles = {}
    /\ handles_issued = 0
    /\ failures = 0
    /\ open_calls = 0
    /\ close_log = <<>>
    /\ fills = {}
    /\ outcome = [t \in Threads |-> "none"]
    /\ contrib = [t \in Threads |-> 0]
    /\ hits = {}
    /\ reinit_used = FALSE
    /\ open_failed = FALSE
    /\ simple_returns = {}

\* A program whose callers keep to floor < roof never has an assert fail and
\* runs the same in either build; it is taken in the build that compiles
\* assert in.
Init == Constructed /\ ndebug = FALSE

\* A program in either build.
InitAnyBuild == Constructed /\ ndebug \in BOOLEAN

\* ------------------------------------------------------------ provider
\* BCryptCloseAlgorithmProvider(h, NULL): releases h when it is an open
\* handle, answers STATUS_INVALID_HANDLE (which no caller reads) otherwise.
BCryptCloseAlgorithmProvider(h, by) ==
    /\ open_handles' = open_handles \ {h}
    /\ close_log' = Append(close_log,
                           [arg |-> h, held |-> algorithm_handle, by |-> by])

\* How the provider sees a handle value.
HandleState(h) ==
    IF h \in open_handles THEN "open"
    ELSE IF h \in 1..handles_issued THEN "closed"
    ELSE "invalid"

\* ------------------------------------------------------------- callers
\* The end of a call of a public method, by `return` or by the exception of
\* line 312: the thread is back in its caller, the arguments and locals of
\* the call are gone, and `how` is what the caller got.
Return(t, how) ==
    /\ pc' = [pc EXCEPT ![t] = "idle"]
    /\ outcome' = [outcome EXCEPT ![t] = how]
    /\ op' = [op EXCEPT ![t] = "none"]
    /\ nested' = [nested EXCEPT ![t] = FALSE]
    /\ number' = [number EXCEPT ![t] = NoNumber]
    /\ floor' = [floor EXCEPT ![t] = 0]
    /\ roof' = [roof EXCEPT ![t] = 0]
    /\ reinitialize' = [reinitialize EXCEPT ![t] = FALSE]
    /\ draws' = [draws EXCEPT ![t] = 0]

\* ------------------------------------------------- IncrementCount (298)
\* Lines 303-313: the check of `dying`, and the exception when it is set.
\* The exception leaves every frame of the thread: the handlers of lines
\* 166, 194, 236, 239, 256 and 283 only rethrow.
\* IncrementCount without the check of lines 303-313.
EnterUnchecked(t, f) ==
    /\ pc' = [pc EXCEPT ![t] = "inc_lock"]
    /\ outcome' = [outcome EXCEPT ![t] = "none"]
    /\ op' = [op EXCEPT ![t] = f.op]
    /\ nested' = [nested EXCEPT ![t] = f.nested]
    /\ floor' = [floor EXCEPT ![t] = f.floor]
    /\ roof' = [roof EXCEPT ![t] = f.roof]
    /\ draws' = [draws EXCEPT ![t] = f.draws]
    /\ number' = [number EXCEPT ![t] = NoNumber]
    /\ UNCHANGED reinitialize

\* A frame f = [op, nested, floor, roof, draws] is what the thread holds when
\* the check passes; `number` of the method entered is not written yet.
Enter(t, f) ==
    IF dying
    THEN Return(t, "shutdown")
    ELSE /\ pc' = [pc EXCEPT ![t] = "inc_lock"]
         /\ outcome' = [outcome EXCEPT ![t] = "none"]
         /\ op' = [op EXCEPT ![t] = f.op]
         /\ nested' = [nested EXCEPT ![t] = f.nested]
         /\ floor' = [floor EXCEPT ![t] = f.floor]
         /\ roof' = [roof EXCEPT ![t] = f.roof]
         /\ draws' = [draws EXCEPT ![t] = f.draws]
         /\ number' = [number EXCEPT ![t] = NoNumber]
         /\ UNCHANGED reinitialize

\* Line 316: std::lock_guard on count_muter.
IncLock(t) ==
    /\ pc[t] = "inc_lock"
    /\ count_muter = 0
    /\ count_muter' = t
    /\ pc' = [pc EXCEPT ![t] = "inc_write"]
    /\ UNCHANGED <<initialized, algorithm_handle, dying, pending_count,
                   destruction_muter>>
    /\ UNCHANGED <<op, nested, number, floor, roof, reinitialize, calls, draws>>
    /\ UNCHANGED <<dpc, provider, history>>
    /\ UNCHANGED <<ndebug>>

\* Lines 319-320: the increment, and the guard's release at scope exit.
\* Control returns to line 168 (operator()()) or to the distribution of
\* lines 197, 259, 286 (the range methods).
IncWrite(t) ==
    /\ pc[t] = "inc_write"
    /\ pending_count' = pending_count + 1
    /\ count_muter' = 0
    /\ contrib' = [contrib EXCEPT ![t] = @ + 1]
    /\ pc' = [pc EXCEPT ![t] =
                 IF op[t] \in RangeOps /\ ~nested[t] THEN "dist" ELSE "g_init"]
    /\ UNCHANGED <<initialized, algorithm_handle, dying, destruction_muter>>
    /\ UNCHANGED <<op, nested, number, floor, roof, reinitialize, calls, draws>>
    /\ UNCHANGED <<dpc, provider>>
    /\ UNCHANGED <<open_calls, close_log, fills, outcome, hits,
                   reinit_used, open_failed>>
    /\ UNCHANGED <<simple_returns, ndebug>>

\* ------------------------------------------------- operator()() (161)
\* rng() / rng.GetRand() (lines 161-166, 236): a new `number`, then
\* IncrementCount.
CallGenerate(t, max) ==
    /\ pc[t] = "idle"
    /\ calls[t] < max
    /\ calls' = [calls EXCEPT ![t] = @ + 1]
    /\ Enter(t, [op |-> "gen", nested |-> FALSE, floor |-> 0, roof |-> 0,
                 draws |-> 0])
    /\ UNCHANGED <<fields, dpc, provider>>
    /\ UNCHANGED <<open_calls, close_log, fills, contrib, hits,
                   reinit_used, open_failed>>
    /\ UNCHANGED <<simple_returns, ndebug>>

\* Line 169: `if (!initialized) { this->Initialize(); }`, the argument of
\* Initialize defaulted to false (line 208).
GInit(t) ==
    /\ pc[t] = "g_init"
    /\ IF initialized
       THEN /\ pc' = [pc EXCEPT ![t] = "g_fill"]
            /\ UNCHANGED reinitialize
       ELSE /\ pc' = [pc EXCEPT ![t] = "i_check"]
            /\ reinitialize' = [reinitialize EXCEPT ![t] = FALSE]
    /\ UNCHANGED <<fields, op, nested, number, floor, roof, calls, draws>>
    /\ UNCHANGED <<dpc, provider, history>>
    /\ UNCHANGED <<ndebug>>

\* -------------------------------------------------- Initialize (208)
\* Where Initialize returns to: its caller (a call of rng.Initialize is
\* over) or line 172 of operator()().
InitReturn(o) == IF o = "init" THEN "idle" ELSE "g_fill"

\* Initialize without the `else { return; }` of line 219.
InitializeCheckNoReturn(o, reinit) ==
    IF initialized /\ reinit THEN "i_unset" ELSE "i_open"

\* Lines 213-220: already initialized and no reinitialisation wanted is a
\* return; already initialized and reinitialisation wanted goes on to line
\* 216; not initialized goes on to line 223.
InitializeCheck(o, reinit) ==
    IF initialized
    THEN IF reinit THEN "i_unset" ELSE InitReturn(o)
    ELSE "i_open"

\* rng.Initialize(reinitialize), up to its read of `initialized` (213).
CallInitialize(t, max) ==
    /\ pc[t] = "idle"
    /\ calls[t] < max
    /\ \E b \in BOOLEAN :
         /\ reinit_used' = (reinit_used \/ b)
         /\ IF InitializeCheck("init", b) = "idle"
            THEN Return(t, "done")
            ELSE /\ pc' = [pc EXCEPT ![t] = InitializeCheck("init", b)]
                 /\ outcome' = [outcome EXCEPT ![t] = "none"]
                 /\ op' = [op EXCEPT ![t] = "init"]
                 /\ reinitialize' = [reinitialize EXCEPT ![t] = b]
                 /\ UNCHANGED <<nested, number, floor, roof, draws>>
    /\ calls' = [calls EXCEPT ![t] = @ + 1]
    /\ UNCHANGED <<fields, dpc, provider>>
    /\ UNCHANGED <<open_calls, close_log, fills, contrib, hits, open_failed>>
    /\ UNCHANGED <<simple_returns, ndebug>>

\* Line 213 when Initialize was called from line 169.
ICheck(t) ==
    /\ pc[t] = "i_check"
    /\ pc' = [pc EXCEPT ![t] = InitializeCheck(op[t], reinitialize[t])]
    /\ UNCHANGED <<fields, op, nested, number, floor, roof, reinitialize,
                   calls, draws>>
    /\ UNCHANGED <<dpc, provider, history>>
    /\ UNCHANGED <<ndebug>>

\* An Initialize(true) that would bring a dying object back: line 216
\* clearing `dying` along with `initialized`.
IUnsetRevives(t) ==
    /\ pc[t] = "i_unset"
    /\ initialized' = FALSE
    /\ dying' = FALSE
    /\ pc' = [pc EXCEPT ![t] = "i_close"]
    /\ UNCHANGED <<algorithm_handle, pending_count, count_muter,
                   destruction_muter>>
    /\ UNCHANGED <<op, nested, number, floor, roof, reinitialize, calls, draws>>
    /\ UNCHANGED <<dpc, provider, history>>
    /\ UNCHANGED <<ndebug>>

\* Line 216: `initialized = false;`.
IUnset(t) ==
    /\ pc[t] = "i_unset"
    /\ initialized' = FALSE
    /\ pc' = [pc EXCEPT ![t] = "i_close"]
    /\ UNCHANGED <<algorithm_handle, dying, pending_count, count_muter,
                   destruction_muter>>
    /\ UNCHANGED <<op, nested, number, floor, roof, reinitialize, calls, draws>>
    /\ UNCHANGED <<dpc, provider, history>>
    /\ UNCHANGED <<ndebug>>

\* The argument line 217 hands to BCryptCloseAlgorithmProvider:
\* `&this->algorithm_handle`, the address of the member (a PVOID*, which
\* converts to the PVOID the provider takes), not its value.
InitializeCloseArg == AddrOfHandle

\* Line 217.
IClose(t) ==
    /\ pc[t] = "i_close"
    /\ BCryptCloseAlgorithmProvider(InitializeCloseArg, "Initialize")
    /\ pc' = [pc EXCEPT ![t] = "i_open"]
    /\ UNCHANGED <<fields, op, nested, number, floor, roof, reinitialize,
                   calls, draws>>
    /\ UNCHANGED <<dpc, handles_issued, failures>>
    /\ UNCHANGED <<open_calls, fills, outcome, contrib, hits,
                   reinit_used, open_failed>>
    /\ UNCHANGED <<simple_returns, ndebug>>

\* Line 223: BCryptOpenAlgorithmProvider(&this->algorithm_handle, ...).  The
\* provider writes a fresh handle through the pointer, or fails and leaves
\* the member as it was; the NTSTATUS it returns is dropped.
IOpen(t) ==
    /\ pc[t] = "i_open"
    /\ open_calls' = open_calls + 1
    /\ \/ /\ handles_issued' = handles_issued + 1
          /\ algorithm_handle' = handles_issued + 1
          /\ open_handles' = open_handles \cup {handles_issued + 1}
          /\ open_failed' = FALSE
          /\ UNCHANGED failures
       \/ /\ failures < MaxFailures
          /\ failures' = failures + 1
          /\ open_failed' = TRUE
          /\ UNCHANGED <<algorithm_handle, open_handles, handles_issued>>
    /\ pc' = [pc EXCEPT ![t] = "i_set"]
    /\ UNCHANGED <<initialized, dying, pending_count, count_muter,
                   destruction_muter>>
    /\ UNCHANGED <<op, nested, number, floor, roof, reinitialize, calls, draws>>
    /\ UNCHANGED <<dpc, close_log, fills, outcome, contrib, hits, reinit_used>>
    /\ UNCHANGED <<simple_returns, ndebug>>

\* Lines 224-225: `initialized = true;` and the return.
ISet(t) ==
    /\ pc[t] = "i_set"
    /\ initialized' = TRUE
    /\ IF InitReturn(op[t]) = "idle"
       THEN Return(t, "done")
       ELSE /\ pc' = [pc EXCEPT ![t] = InitReturn(op[t])]
            /\ UNCHANGED <<op, nested, number, floor, roof, reinitialize,
                           draws, outcome>>
    /\ UNCHANGED <<algorithm_handle, dying, pending_count, count_muter,
                   destruction_muter>>
    /\ UNCHANGED <<calls, dpc, provider>>
    /\ UNCHANGED <<open_calls, close_log, fills, contrib, hits,
                   reinit_used, open_failed>>
    /\ UNCHANGED <<simple_returns, ndebug>>

\* Line 172: BCryptGenRandom(this->algorithm_handle, &number, ...), its
\* NTSTATUS dropped.  On an open handle the provider writes every byte of
\* `number`, or fails and writes none; a handle it never issued is refused;
\* a handle it has closed is a dangling pointer, which it may still serve or
\* refuse.  A `number` that was not written keeps an indeterminate value.
GFill(t) ==
    /\ pc[t] = "g_fill"
    /\ fills' = fills \cup {HandleState(algorithm_handle)}
    /\ \E v \in Raw :
         \/ /\ HandleState(algorithm_handle) # "invalid"
            /\ number' = [number EXCEPT ![t] = [val |-> v, written |-> TRUE]]
            /\ UNCHANGED failures
         \/ /\ HandleState(algorithm_handle) # "open"
            /\ number' = [number EXCEPT ![t] = [val |-> v, written |-> FALSE]]
            /\ UNCHANGED failures
         \/ /\ HandleState(algorithm_handle) = "open"
            /\ failures < MaxFailures
            /\ failures' = failures + 1
            /\ number' = [number EXCEPT ![t] = [val |-> v, written |-> FALSE]]
    /\ pc' = [pc EXCEPT ![t] = "dec_lock"]
    /\ UNCHANGED <<fields, op, nested, floor, roof, reinitialize, calls, draws>>
    /\ UNCHANGED <<dpc, open_handles, handles_issued>>
    /\ UNCHANGED <<open_calls, close_log, outcome, contrib, hits,
                   reinit_used, open_failed>>
    /\ UNCHANGED <<simple_returns, ndebug>>

\* ------------------------------------------------- SimpleRandom (350)
\* `(int)rng()` of line 352: the unsigned value read as a signed one of the
\* same width, the values above INT_MAX becoming the negative ones.
ToInt(u) == IF u > SMax THEN u - TCard ELSE u

\* std::abs(int) of line 352.  The negation of INT_MIN does not fit an int;
\* the two's complement negation the header's platform computes takes it
\* modulo 2^w, which gives INT_MIN again.
StdAbs(x) == IF x < 0 THEN ToInt((0 - x) % TCard) ELSE x

\* SimpleRandom() (lines 350-353) on the raw value its rng() returned.
SimpleRandom(raw) == StdAbs(ToInt(raw))

\* SimpleRandom() up to the check of `dying` in the IncrementCount of the
\* rng() it calls on its function-local static generator.
CallSimple(t, max) ==
    /\ pc[t] = "idle"
    /\ calls[t] < max
    /\ calls' = [calls EXCEPT ![t] = @ + 1]
    /\ Enter(t, [op |-> "simple", nested |-> FALSE, floor |-> 0, roof |-> 0,
                 draws |-> 0])
    /\ UNCHANGED <<fields, dpc, provider>>
    /\ UNCHANGED <<open_calls, close_log, fills, contrib, hits,
                   reinit_used, open_failed>>
    /\ UNCHANGED <<simple_returns, ndebug>>

\* ------------------------------------------------- DecrementCount (324)
\* Line 329: std::lock_guard on count_muter.
DecLock(t) ==
    /\ pc[t] = "dec_lock"
    /\ count_muter = 0
    /\ count_muter' = t
    /\ pc' = [pc EXCEPT ![t] = "dec_write"]
    /\ UNCHANGED <<initialized, algorithm_handle, dying, pending_count,
                   destruction_muter>>
    /\ UNCHANGED <<op, nested, number, floor, roof, reinitialize, calls, draws>>
    /\ UNCHANGED <<dpc, provider, history>>
    /\ UNCHANGED <<ndebug>>

\* The bounds a range call has met: its result was its floor, its roof.
Hit(t) ==
    IF op[t] \in {"range", "custom"}
    THEN {b \in {"floor", "roof"} :
            number[t].val = (IF b = "floor" THEN floor[t] ELSE roof[t])}
    ELSE {}

\* Lines 332-333, and the `return number;` of the method that called
\* DecrementCount (lines 178, 203, 265, 292).  A nested operator()() returns
\* into the distribution that called it.
DecWrite(t) ==
    /\ pc[t] = "dec_write"
    /\ pending_count' = pending_count - 1
    /\ count_muter' = 0
    /\ contrib' = [contrib EXCEPT ![t] = @ - 1]
    /\ IF nested[t]
       THEN /\ pc' = [pc EXCEPT ![t] = "dist_ret"]
            /\ nested' = [nested EXCEPT ![t] = FALSE]
            /\ UNCHANGED <<op, number, floor, roof, reinitialize, draws,
                           outcome, hits>>
       ELSE /\ Return(t, "value")
            /\ hits' = hits \cup Hit(t)
    /\ simple_returns' =
          IF op[t] = "simple" /\ ~nested[t]
          THEN simple_returns \cup {SimpleRandom(number[t].val)}
          ELSE simple_returns
    /\ UNCHANGED <<initialized, algorithm_handle, dying, destruction_muter>>
    /\ UNCHANGED <<calls, dpc, provider>>
    /\ UNCHANGED <<open_calls, close_log, fills, reinit_used, open_failed>>
    /\ UNCHANGED <<ndebug>>

\* ------------------------- operator()(floor, roof), CustomRand, FloatingRand
\* The arguments a range method is called with: result_type values for
\* rng(floor, roof), values of a signed type of the same width for
\* CustomRand, the default interval and another for FloatingRand; always
\* floor < roof, the precondition of lines 190, 252 and 279.
RangeArgs(kind) ==
    IF kind = "range" THEN {a \in Raw \X Raw : a[1] < a[2]}
    ELSE IF kind = "custom" THEN {a \in (SMin..SMax) \X (SMin..SMax) : a[1] < a[2]}
    ELSE {<<0, 1>>, <<1, 3>>}

\* rng(floor, roof) (184), rng.GetRand(floor, roof) (239),
\* rng.CustomRand<cast_type>(floor, roof) (243) and
\* rng.FloatingRand<floating_type>(floor, roof) (270), up to the check of
\* `dying` in their IncrementCount (lines 193, 255, 282).
CallRange(t, max) ==
    /\ pc[t] = "idle"
    /\ calls[t] < max
    /\ calls' = [calls EXCEPT ![t] = @ + 1]
    /\ \E kind \in RangeOps : \E a \in RangeArgs(kind) :
         Enter(t, [op |-> kind, nested |-> FALSE, floor |-> a[1],
                   roof |-> a[2], draws |-> 0])
    /\ UNCHANGED <<fields, dpc, provider>>
    /\ UNCHANGED <<open_calls, close_log, fills, contrib, hits,
                   reinit_used, open_failed>>
    /\ UNCHANGED <<simple_returns, ndebug>>

\* `assert(floor < roof && "...")` of lines 190, 252 and 279.
AssertLessOrEqual(lo, hi) == lo <= hi

AssertFloorBelowRoof(lo, hi) == lo < hi

\* What else a caller can pass to a range method: bounds with floor >= roof.
UnorderedArgs(kind) ==
    IF kind = "range" THEN {a \in Raw \X Raw : a[1] >= a[2]}
    ELSE IF kind = "custom" THEN {a \in (SMin..SMax) \X (SMin..SMax) : a[1] >= a[2]}
    ELSE {<<1, 1>>, <<3, 1>>}

\* A range method called with such bounds (lines 184-194, 243-256,
\* 270-283).  Where assert is compiled in and its condition is false, the
\* assertion fails and abort() ends the process on the spot: no thread and
\* no destructor runs after it, and the object is left as it was.  Where
\* assert is compiled out, or its condition holds, the method goes on to
\* IncrementCount.
CallRangeUnordered(t, max) ==
    /\ pc[t] = "idle"
    /\ calls[t] < max
    /\ calls' = [calls EXCEPT ![t] = @ + 1]
    /\ \E kind \in RangeOps : \E a \in UnorderedArgs(kind) :
         IF ~ndebug /\ ~AssertFloorBelowRoof(a[1], a[2])
         THEN /\ pc' = [u \in Threads |-> "aborted"]
              /\ dpc' = "aborted"
              /\ outcome' = [outcome EXCEPT ![t] = "abort"]
              /\ op' = [op EXCEPT ![t] = kind]
              /\ floor' = [floor EXCEPT ![t] = a[1]]
              /\ roof' = [roof EXCEPT ![t] = a[2]]
              /\ UNCHANGED <<nested, number, reinitialize, draws>>
         ELSE /\ Enter(t, [op |-> kind, nested |-> FALSE, floor |-> a[1],
                           roof |-> a[2], draws |-> 0])
              /\ UNCHANGED dpc
    /\ UNCHANGED <<fields, provider>>
    /\ UNCHANGED <<open_calls, close_log, fills, contrib, hits,
                   reinit_used, open_failed>>
    /\ UNCHANGED <<simple_returns, ndebug>>

\* std::uniform_int_distribution<_Ty>(lo, hi)(urng) over a generator whose
\* range is all of T, as the library the header is built with computes it:
\* the whole range of the type takes the raw value as it is; otherwise a raw
\* value is kept when it lies below the largest multiple of hi - lo + 1 and
\* thrown away when it does not.
UniformIntAccepts(lo, hi, raw) ==
    \/ hi - lo = TMax
    \/ raw \div (hi - lo + 1) < TMax \div (hi - lo + 1)
    \/ TMax % (hi - lo + 1) = hi - lo

UniformInt(lo, hi, raw) ==
    IF hi - lo = TMax THEN lo + raw ELSE lo + (raw % (hi - lo + 1))

\* std::uniform_real_distribution<_Ty>(lo, hi)(urng): lo + (hi - lo) * u with
\* u = raw / 2^TBits in [0, 1).  The result is kept in units of 1 / 2^TBits.
UniformReal(lo, hi, raw) == lo * TCard + (hi - lo) * raw

\* What the distribution of lines 197, 259, 286 makes of one raw value.
DistributionAccepts(kind, lo, hi, raw) ==
    kind = "floating" \/ UniformIntAccepts(lo, hi, raw)

\* A distribution constructed from roof alone: (min(), roof).
DistributionFromZero(kind, lo, hi, raw) ==
    IF kind = "floating" THEN UniformReal(lo, hi, raw)
    ELSE UniformInt(0, hi, raw)

Distribution(kind, lo, hi, raw) ==
    IF kind = "floating" THEN UniformReal(lo, hi, raw)
    ELSE UniformInt(lo, hi, raw)

\* Lines 197, 259, 286: the distribution, constructed from (floor, roof),
\* calls `(*this)()`: operator()() with a `number` of its own, which starts
\* with IncrementCount.
DistCall(t) ==
    /\ pc[t] = "dist"
    /\ op[t] = "floating" \/ floor[t] < roof[t]
    /\ Enter(t, [op |-> op[t], nested |-> TRUE, floor |-> floor[t],
                 roof |-> roof[t], draws |-> draws[t] + 1])
    /\ UNCHANGED <<fields, calls, dpc, provider>>
    /\ UNCHANGED <<open_calls, close_log, fills, contrib, hits,
                   reinit_used, open_failed>>
    /\ UNCHANGED <<simple_returns, ndebug>>

\* The distribution takes what operator()() returned: it assigns its result
\* to `number` and the method goes on to DecrementCount (lines 200, 262,
\* 289), or it asks for another raw value.
DistReturn(t) ==
    /\ pc[t] = "dist_ret"
    /\ IF DistributionAccepts(op[t], floor[t], roof[t], number[t].val)
       THEN /\ number' = [number EXCEPT ![t].val =
                    Distribution(op[t], floor[t], roof[t], number[t].val)]
            /\ pc' = [pc EXCEPT ![t] = "dec_lock"]
       ELSE /\ draws[t] < MaxDraws
            /\ pc' = [pc EXCEPT ![t] = "dist"]
            /\ UNCHANGED number
    /\ UNCHANGED <<fields, op, nested, floor, roof, reinitialize, calls, draws>>
    /\ UNCHANGED <<dpc, provider, history>>
    /\ UNCHANGED <<ndebug>>

\* std::uniform_int_distribution<_Ty>(floor, roof) with floor >= roof, which
\* only a build without the assert lets through.  With floor = roof the
\* library has one value to choose from and returns it without asking the
\* generator for bits.  With floor > roof the precondition of the
\* distribution is broken and its behaviour is undefined: the method may
\* get any value of the type.
DegenerateValues(kind, lo, hi) ==
    IF lo = hi THEN {lo}
    ELSE IF kind = "range" THEN Raw
    ELSE SMin..SMax

DistDegenerate(t) ==
    /\ pc[t] = "dist"
    /\ op[t] \in {"range", "custom"}
    /\ floor[t] >= roof[t]
    /\ \E v \in DegenerateValues(op[t], floor[t], roof[t]) :
         number' = [number EXCEPT ![t] = [val |-> v, written |-> TRUE]]
    /\ pc' = [pc EXCEPT ![t] = "dec_lock"]
    /\ UNCHANGED <<fields, op, nested, floor, roof, reinitialize, calls, draws>>
    /\ UNCHANGED <<dpc, provider, history, ndebug>>

\* --------------------------------------------------- ~RNGClass (137)
\* Line 143: `this->dying = true;`.
DSetDying ==
    /\ dpc = "alive"
    /\ dying' = TRUE
    /\ dpc' = "d_lock"
    /\ UNCHANGED <<initialized, algorithm_handle, pending_count, count_muter,
                   destruction_muter>>
    /\ UNCHANGED <<locals, provider, history>>
    /\ UNCHANGED <<ndebug>>

\* Line 146: std::unique_lock on destruction_muter, which no other method
\* locks.
DLock ==
    /\ dpc = "d_lock"
    /\ ~destruction_muter
    /\ destruction_muter' = TRUE
    /\ dpc' = "d_wait"
    /\ UNCHANGED <<initialized, algorithm_handle, dying, pending_count,
                   count_muter>>
    /\ UNCHANGED <<locals, provider, history>>
    /\ UNCHANGED <<ndebug>>

\* Line 147: condition.wait(lock, pred) is `while (!pred()) wait(lock);`.
\* The predicate reads pending_count without count_muter; when it is false
\* the thread releases destruction_muter and blocks on `condition`.
DWait ==
    /\ dpc = "d_wait"
    /\ IF pending_count = 0
       THEN /\ dpc' = "d_uninit"
            /\ UNCHANGED destruction_muter
       ELSE /\ dpc' = "d_blocked"
            /\ destruction_muter' = FALSE
    /\ UNCHANGED <<initialized, algorithm_handle, dying, pending_count,
                   count_muter>>
    /\ UNCHANGED <<locals, provider, history>>
    /\ UNCHANGED <<ndebug>>

\* `condition` is a local of the destructor (line 140) and nothing in the
\* class calls notify_one or notify_all: the blocked thread wakes only
\* spuriously, which the standard allows and never promises.  It takes the
\* lock again and evaluates the predicate again.
DSpuriousWake ==
    /\ dpc = "d_blocked"
    /\ ~destruction_muter
    /\ destruction_muter' = TRUE
    /\ dpc' = "d_wait"
    /\ UNCHANGED <<initialized, algorithm_handle, dying, pending_count,
                   count_muter>>
    /\ UNCHANGED <<locals, provider, history>>
    /\ UNCHANGED <<ndebug>>

\* Line 150: `this->initialized = false;`.
DUninit ==
    /\ dpc = "d_uninit"
    /\ initialized' = FALSE
    /\ dpc' = "d_close"
    /\ UNCHANGED <<algorithm_handle, dying, pending_count, count_muter,
                   destruction_muter>>
    /\ UNCHANGED <<locals, provider, history>>
    /\ UNCHANGED <<ndebug>>

\* Lines 153-154: BCryptCloseAlgorithmProvider(this->algorithm_handle, NULL)
\* and the release of the lock at the end of the destructor.
DClose ==
    /\ dpc = "d_close"
    /\ BCryptCloseAlgorithmProvider(algorithm_handle, "~RNGClass")
    /\ destruction_muter' = FALSE
    /\ dpc' = "d_done"
    /\ UNCHANGED <<initialized, algorithm_handle, dying, pending_count,
                   count_muter>>
    /\ UNCHANGED <<locals, handles_issued, failures>>
    /\ UNCHANGED <<open_calls, fills, outcome, contrib, hits,
                   reinit_used, open_failed>>
    /\ UNCHANGED <<simple_returns, ndebug>>

Destructor == DSetDying \/ DLock \/ DWait \/ DSpuriousWake \/ DUninit \/ DClose

\* --------------------------------------------- concurrent specification
\* NThreads threads, each calling rng() MaxCalls times, and the thread that
\* destroys the generator.
Next ==
    \/ \E t \in Threads :
         \/ CallGenerate(t, MaxCalls)
         \/ IncLock(t) \/ IncWrite(t)
         \/ GInit(t) \/ ICheck(t) \/ IOpen(t) \/ ISet(t)
         \/ GFill(t)
         \/ DecLock(t) \/ DecWrite(t)
    \/ Destructor

Spec == Init /\ [][Next]_vars

\* --------------------------------------------- sequential specification
\* One caller thread making up to SeqCalls calls of any method of the class,
\* one after the other, and the thread that destroys the generator.
Caller == CHOOSE t \in Threads : \A u \in Threads : t <= u

SeqNext ==
    \/ CallGenerate(Caller, SeqCalls)
    \/ CallRange(Caller, SeqCalls)
    \/ CallInitialize(Caller, SeqCalls)
    \/ IncLock(Caller) \/ IncWrite(Caller)
    \/ GInit(Caller) \/ ICheck(Caller)
    \/ IUnset(Caller) \/ IClose(Caller) \/ IOpen(Caller) \/ ISet(Caller)
    \/ GFill(Caller)
    \/ DecLock(Caller) \/ DecWrite(Caller)
    \/ DistCall(Caller) \/ DistReturn(Caller)
    \/ Destructor

SeqSpec == Init /\ [][SeqNext]_vars

\* ------------------------------------------------------------ fairness
\* A thread inside a method goes on running; whether it calls at all is its
\* own choice.
ThreadStep(t) ==
    \/ IncLock(t) \/ IncWrite(t)
    \/ GInit(t) \/ ICheck(t) \/ IOpen(t) \/ ISet(t)
    \/ GFill(t)
    \/ DecLock(t) \/ DecWrite(t)

\* The destructor, once called, goes on running wherever it is not blocked
\* on `condition`; a spurious wakeup is never owed to it.
DestructorProgress == DLock \/ DWait \/ DUninit \/ DClose

FairSpec ==
    /\ Spec
    /\ \A t \in Threads : WF_vars(ThreadStep(t))
    /\ WF_vars(DestructorProgress)

\* ------------------------------------------------ further specifications
\* One caller of the range methods that does not keep to floor < roof, in
\* either build.
ArgNext ==
    \/ CallRange(Caller, ArgCalls)
    \/ CallRangeUnordered(Caller, ArgCalls)
    \/ ThreadStep(Caller)
    \/ DistCall(Caller) \/ DistReturn(Caller) \/ DistDegenerate(Caller)
    \/ Destructor

ArgSpec == InitAnyBuild /\ [][ArgNext]_vars

\* One caller of SimpleRandom(), and the destructor of its static generator
\* at the end of the program.
SimpleNext ==
    \/ CallSimple(Caller, SeqCalls)
    \/ ThreadStep(Caller)
    \/ Destructor

SimpleSpec == Init /\ [][SimpleNext]_vars

\* The destructor of an object no thread is inside of (line 137 reached
\* with every caller outside the methods).
DSetDyingQuiet ==
    /\ \A t \in Threads : pc[t] = "idle"
    /\ DSetDying

\* The sequential caller, with a destructor that starts only then.  The
\* caller may call again while the destructor runs.
QuietNext ==
    \/ CallGenerate(Caller, SeqCalls)
    \/ CallRange(Caller, SeqCalls)
    \/ CallInitialize(Caller, SeqCalls)
    \/ ThreadStep(Caller)
    \/ IUnset(Caller) \/ IClose(Caller)
    \/ DistCall(Caller) \/ DistReturn(Caller)
    \/ DSetDyingQuiet \/ DestructorProgress

QuietSpec == Init /\ [][QuietNext]_vars

\* One owner that uses the object and then destroys it: every call is made
\* and has returned before the destructor starts.
OwnerGenerate == dpc = "alive" /\ CallGenerate(Caller, SeqCalls)

OwnerRange == dpc = "alive" /\ CallRange(Caller, SeqCalls)

OwnerInitialize == dpc = "alive" /\ CallInitialize(Caller, SeqCalls)

LifetimeNext ==
    \/ OwnerGenerate \/ OwnerRange \/ OwnerInitialize
    \/ ThreadStep(Caller)
    \/ IUnset(Caller) \/ IClose(Caller)
    \/ DistCall(Caller) \/ DistReturn(Caller)
    \/ DSetDyingQuiet \/ DestructorProgress

LifetimeSpec == Init /\ [][LifetimeNext]_vars

\* Threads that call rng() or Initialize(reinitialize), and the destructor.
ReinitNext ==
    \/ \E t \in Threads :
          \/ CallGenerate(t, MaxCalls)
          \/ CallInitialize(t, MaxCalls)
          \/ ThreadStep(t)
          \/ IUnset(t) \/ IClose(t)
    \/ Destructor

ReinitSpec == Init /\ [][ReinitNext]_vars

\* -------------------------------------------------------------- claims
\* A generation call is in flight from the moment its IncrementCount has
\* read `dying` as false until its DecrementCount has returned; a thread in
\* Initialize is inside the operator()() that called it, or in no
\* generation call at all.
InFlight(t) == pc[t] # "idle" /\ op[t] # "init"

\* The destructor's line 153 has released a handle the provider had issued.
TeardownReleased ==
    \E i \in DOMAIN close_log :
        /\ close_log[i].by = "~RNGClass"
        /\ close_log[i].arg \in 1..handles_issued

\* C1: teardown never releases the provider handle while a generation call
\* is between the check of `dying` in its IncrementCount and the end of its
\* DecrementCount, and no thread calls BCryptGenRandom on a handle that has
\* been closed.
C1_NoReleaseDuringGeneration ==
    /\ TeardownReleased => \A t \in Threads : ~InFlight(t)
    /\ "closed" \notin fills

\* C2: with every thread that is inside a call running on, a destructor that
\* has started passes its wait, releases the handle and finishes, also when
\* pending_count was above 0 when it began to wait.
C2_TeardownTerminates == dying ~> (dpc = "d_done")

\* A step of thread t that invokes a generation method: a call of rng(),
\* of a range method, or the distribution's call of operator()().
InvokesGeneration(t) ==
    \/ /\ calls'[t] = calls[t] + 1
       /\ op'[t] # "init"
       /\ outcome'[t] # "done"
    \/ pc[t] = "dist" /\ pc'[t] # "dist"

\* C3: a generation method invoked while `dying` is false does not fail with
\* the shutdown error, and one invoked once `dying` is true fails with it:
\* the thread is back in its caller with the error, pending_count is not
\* incremented, the provider is not called, no value is returned.  The error
\* arises at no other step.
C3_ShutdownGate ==
    [][\A t \in Threads :
        /\ (InvokesGeneration(t) /\ dying) =>
              /\ outcome'[t] = "shutdown"
              /\ pc'[t] = "idle"
              /\ pending_count' = pending_count
              /\ contrib' = contrib
              /\ UNCHANGED <<provider, open_calls, close_log, fills, hits>>
        /\ (InvokesGeneration(t) /\ ~dying) =>
              /\ outcome'[t] = "none"
              /\ pc'[t] = "inc_lock"
        /\ (outcome'[t] = "shutdown" /\ pc[t] # "idle") =>
              (InvokesGeneration(t) /\ dying)
        /\ (outcome'[t] = "shutdown" /\ outcome[t] # "shutdown") =>
              (InvokesGeneration(t) /\ dying)
      ]_vars

\* C3's case: after a call that queried the provider, a later call was
\* refused with the shutdown error, the counter untouched.
C3_Witness ==
    /\ outcome[Caller] = "shutdown"
    /\ calls[Caller] >= 2
    /\ "open" \in fills
    /\ pending_count = 0

\* C4: once `dying` is true no step increments pending_count.
C4_PendingOnlyDrains == [][dying => pending_count' <= pending_count]_vars

\* C5: whenever a generation method has returned or raised, what it added
\* to pending_count has been taken off again.
C5_BracketBalanced == \A t \in Threads : pc[t] = "idle" => contrib[t] = 0

\* C6: every step that releases a provider handle is taken with `dying` true
\* and pending_count 0.
C6_ReleaseOnlyWhenDrained ==
    [][open_handles' # open_handles /\ open_handles' \subseteq open_handles
          => dying /\ pending_count = 0]_vars

\* A step of thread t that returns the value of a range method
\* (lines 203, 265).
ReturnsRange(t) ==
    /\ pc[t] = "dec_write" /\ pc'[t] = "idle"
    /\ op[t] \in {"range", "custom"}

\* A step of thread t that calls a range method, which is admitted.
CallsRange(t) ==
    /\ calls'[t] = calls[t] + 1
    /\ op'[t] \in {"range", "custom"}

\* Some raw value of the provider makes the distribution return `want`.
Reachable(kind, lo, hi, want) ==
    \E raw \in Raw :
        /\ DistributionAccepts(kind, lo, hi, raw)
        /\ Distribution(kind, lo, hi, raw) = want

\* C7: rng(floor, roof) and CustomRand(floor, roof) with floor < roof return
\* only values from floor to roof, whatever raw values the provider supplies,
\* and for the bounds of every call some raw value gives floor and some
\* gives roof.
C7_RangeInclusive ==
    [][\A t \in Threads :
        /\ ReturnsRange(t) =>
              floor[t] <= number[t].val /\ number[t].val <= roof[t]
        /\ CallsRange(t) =>
              /\ Reachable(op'[t], floor'[t], roof'[t], floor'[t])
              /\ Reachable(op'[t], floor'[t], roof'[t], roof'[t])
      ]_vars

\* C7's case: range calls have returned, one its floor and one its roof.
C7_Witness == hits = {"floor", "roof"} /\ pc[Caller] = "idle"

\* A step of thread t that returns a value from a generation method.
ReturnsValue(t) == pc[t] = "dec_write" /\ outcome'[t] = "value"

\* C8: a generation call returns no value the provider did not write in
\* full, and an open that failed does not leave `initialized` true.
C8_ProviderFailureSurfaces ==
    [][\A t \in Threads :
        /\ ReturnsValue(t) => number[t].written
        /\ (pc[t] = "i_set" /\ pc'[t] # "i_set" /\ open_failed)
              => ~initialized'
      ]_vars

\* A step that is a call of Initialize(false) on an initialized generator.
SecondInitialize(t) ==
    /\ calls'[t] = calls[t] + 1
    /\ outcome'[t] = "done"
    /\ initialized

\* C9: while the destructor has not started, a thread that calls only
\* Initialize(false) and generation methods makes the provider open once and
\* close never; a call of Initialize(false) on an initialized generator
\* changes neither `initialized` nor the handle.
C9_InitializeIdempotent ==
    [][/\ (~reinit_used' /\ dpc' = "alive") =>
              /\ open_calls' <= 1
              /\ close_log' = <<>>
              /\ initialized' => open_calls' = 1
              /\ (pc'[Caller] = "idle" /\ calls'[Caller] >= 1)
                    => open_calls' = 1
       /\ (SecondInitialize(Caller) /\ ~reinit_used' /\ dpc = "alive") =>
              UNCHANGED <<initialized, algorithm_handle, provider,
                          open_calls, close_log>>
      ]_vars

\* C9's case: Initialize(false) twice in a row on a fresh generator, and
\* nothing else.
C9_Witness ==
    /\ calls[Caller] = 2
    /\ outcome[Caller] = "done"
    /\ pc[Caller] = "idle"
    /\ fills = {}
    /\ ~reinit_used
    /\ dpc = "alive"
    /\ open_calls = 1

\* C10: the close that Initialize(true) makes is applied to the handle the
\* generator holds.
C10_ReinitClosesHeldHandle ==
    \A i \in DOMAIN close_log :
        close_log[i].by = "Initialize" => close_log[i].arg = close_log[i].held

\* A step in which thread t calls a range method with floor >= roof.
CallsUnordered(t) ==
    /\ pc[t] = "idle"
    /\ calls'[t] = calls[t] + 1
    /\ op'[t] \in RangeOps
    /\ floor'[t] >= roof'[t]

\* The call has been turned away before its IncrementCount: the caller gets
\* no value, and neither pending_count nor the provider has been touched.
RejectedBeforeEnter(t) ==
    /\ pc'[t] = "aborted"
    /\ outcome'[t] = "abort"
    /\ pending_count' = pending_count
    /\ contrib' = contrib
    /\ <<open_calls, fills, provider>>' = <<open_calls, fills, provider>>

\* C11 as stated: a call of rng(floor, roof), CustomRand or FloatingRand
\* with floor >= roof is rejected before IncrementCount runs, whatever the
\* build: no value, pending_count unchanged, the provider not queried.
C11_UnorderedRejected ==
    [][\A t \in Threads : CallsUnordered(t) => RejectedBeforeEnter(t)]_vars

\* C11, amended: in a build that compiles assert in (NDEBUG not defined) a
\* range call with floor >= roof is rejected before IncrementCount runs,
\* by a failed assertion that ends the process: no value, pending_count
\* unchanged, the provider not queried, and no thread is ever inside a
\* range method with such bounds.
C11_UnorderedRejectedWithAssert ==
    [][~ndebug =>
         /\ \A t \in Threads : CallsUnordered(t) => RejectedBeforeEnter(t)
         /\ \A t \in Threads :
              (op'[t] \in RangeOps /\ floor'[t] >= roof'[t])
                 => pc'[t] = "aborted"]_vars

\* An assertion has failed on a call with floor = roof.
C11_Witness ==
    /\ ~ndebug
    /\ \E t \in Threads :
         /\ outcome[t] = "abort"
         /\ op[t] \in RangeOps
         /\ floor[t] = roof[t]

\* C12: SimpleRandom() returns a value r with 0 <= r <= INT_MAX for every raw
\* value its rng() can produce, the raw value 2^(w-1) (INT_MIN when read as
\* an int) included.
C12_SimpleRandomNonNegative ==
    \A r \in simple_returns : 0 <= r /\ r <= SMax

\* The calls of BCryptCloseAlgorithmProvider made on handle h so far.
ClosesOf(h) == {i \in DOMAIN close_log : close_log[i].arg = h}

\* C13: when the destructor completes, every handle the provider has issued
\* to the object has been closed exactly once: none is still open and none
\* was closed twice.
C13_EveryHandleClosedOnce ==
    [][(dpc = "d_close" /\ dpc' = "d_done")
         => \A h \in 1..handles_issued' :
              /\ h \notin open_handles'
              /\ Cardinality(ClosesOf(h)') = 1]_vars

\* The calls of operator()() and of the range methods that thread t has
\* running between the end of their IncrementCount and the end of their
\* DecrementCount: the range method it is in (once past its increment) and
\* the operator()() its distribution has called.
BetweenEnterAndExit(t) ==
    LET past == pc[t] \notin {"idle", "aborted", "inc_lock", "inc_write"}
    IN  IF pc[t] \in {"idle", "aborted"} \/ op[t] = "init" THEN 0
        ELSE IF nested[t] THEN 1 + (IF past THEN 1 ELSE 0)
        ELSE IF past THEN 1 ELSE 0

RECURSIVE SumBetween(_)
SumBetween(S) ==
    IF S = {} THEN 0
    ELSE LET t == CHOOSE u \in S : TRUE
         IN  BetweenEnterAndExit(t) + SumBetween(S \ {t})

\* C14: pending_count is always the number of generation calls (the nested
\* operator()() of a range call included) that have completed their
\* IncrementCount and not yet their DecrementCount, and it never goes
\* below 0.
C14_PendingCountsCallsInFlight ==
    /\ pending_count = SumBetween(Threads)
    /\ pending_count >= 0

\* C15: whenever no method and no destructor is running (between the
\* operations of Initialize, the generation methods and the destructor),
\* `initialized` is true exactly when algorithm_handle is a handle the
\* provider has opened and not yet closed.
C15_InitializedIffHandleOpen ==
    ((\A t \in Threads : pc[t] = "idle") /\ dpc \in {"alive", "d_done"})
        => (initialized <=> HandleState(algorithm_handle) = "open")

\* C16: while threads call rng() on an object that is not being destroyed,
\* lazy initialisation opens the provider once, every BCryptGenRandom that
\* follows a successful open is given an open handle, and no handle that was
\* opened is overwritten in algorithm_handle and lost.
C16_LazyInitOpensOnce ==
    ~dying =>
        /\ open_calls <= 1
        /\ open_handles \subseteq {algorithm_handle}
        /\ failures = 0 => fills \subseteq {"open"}

\* A step of thread t, inside Initialize(true) on an initialised object,
\* that makes the close of line 217 or, the close made, puts a new handle
\* in the place of the open handle the object holds (line 223).
ReinitClosesOrReplaces(t) ==
    /\ op[t] = "init"
    /\ reinitialize[t]
    /\ \/ pc[t] = "i_close"
       \/ /\ pc[t] = "i_open"
          /\ HandleState(algorithm_handle) = "open"
          /\ \E i \in DOMAIN close_log : close_log[i].by = "Initialize"
    /\ pc'[t] # pc[t]

\* The destructor is between its first statement and its return.
InTeardown == dpc \notin {"alive", "d_done"}

\* C17: Initialize(true) makes its close and its open only while no
\* generation call of another thread is between the end of its
\* IncrementCount and the end of its DecrementCount, and never while the
\* destructor is running.
C17_ReinitFenced ==
    [][\A t \in Threads :
         ReinitClosesOrReplaces(t)
            => /\ \A u \in Threads \ {t} : contrib[u] = 0
               /\ ~InTeardown]_vars

\* C18: `dying` starts false; it is written once, by the first statement of
\* the destructor, which makes it true; once true it stays true, and no step
\* of Initialize, of a generation method or of the rest of the destructor
\* changes it.
C18_DyingMonotonic ==
    [][/\ dying => dying'
       /\ dying' # dying => (dpc = "alive" /\ dpc' = "d_lock" /\ pc' = pc)
       /\ (dpc = "alive" /\ dpc' # "alive") => (~dying /\ dying')
       /\ dpc = "alive" => ~dying]_vars

\* The destructor has run to its end on an object that was initialised,
\* re-initialised and used for a generation call rejected after `dying` was
\* set.
C18_Witness ==
    /\ dying
    /\ dpc = "d_done"
    /\ reinit_used
    /\ outcome[Caller] = "shutdown"

\* C19: BCryptCloseAlgorithmProvider is called at most as often as
\* BCryptOpenAlgorithmProvider has succeeded, and only on a handle that an
\* earlier open returned; so the destructor of an object that was never
\* initialised makes no close call at all.
C19_CloseOnlyOpenedHandles ==
    /\ Len(close_log) <= handles_issued
    /\ \A i \in DOMAIN close_log : close_log[i].arg \in 1..handles_issued

\* C20: a destructor that starts while no thread is inside a method never
\* blocks in its wait; it sets `dying`, then finds pending_count = 0, then
\* makes its close; and when it returns dying is true, pending_count is 0,
\* initialized is false and algorithm_handle is no open handle.
C20_QuietTeardown ==
    [][/\ dpc' # "d_blocked"
       /\ (dpc = "d_wait" /\ dpc' = "d_uninit")
            => /\ dying
               /\ pending_count = 0
               /\ \A i \in DOMAIN close_log : close_log[i].by # "~RNGClass"
       /\ (dpc = "d_close" /\ dpc' = "d_done")
            => /\ dying'
               /\ pending_count' = 0
               /\ ~initialized'
               /\ algorithm_handle' \notin open_handles']_vars

=============================================================================
